---- MODULE Spec2Model ----
(***************************************************************************)
(* Model of the turn scheduler of multi_player_dnd.ipynb: DialogueAgent,   *)
(* DialogueSimulator and the round-robin policy select_next_speaker.       *)
(*                                                                         *)
(* Python indices are kept 0-based (speaker_idx, step); TLA+ sequences are *)
(* 1-based, so agents[idx] of the code is agents[idx + 1] here.            *)
(***************************************************************************)
EXTENDS Integers, Sequences, FiniteSets, TLC

VARIABLES
    agents,              \* DialogueSimulator.agents: the names of the agents, in roster order
    selection_function,  \* DialogueSimulator.select_next_speaker: which callable was passed in
    _step,               \* DialogueSimulator._step
    message_history,     \* message_history[i]: DialogueAgent.message_history of agents[i]
    ret,                 \* outcome of the last operation called on the simulator
    schedule,            \* results of select_next_speaker for step = 0, 1, 2, ...
    system_message,      \* system_message[i]: DialogueAgent.system_message of agents[i]
    score,               \* argument of relevance_score_fn, in 1/Unit
    relevance,           \* result of relevance_score_fn(score), in 1/Unit
    log,                 \* the (name, message) pairs delivered since the last reset
    main,                \* the main loop cell: position, n, and what it printed
    conv                 \* the activation of run_conversation: position, arguments, locals

vars == <<agents, selection_function, _step, message_history, ret, schedule,
          system_message, score, relevance, log, main, conv>>

\* The variables of the two drivers (main loop cell, run_conversation).
drivers == <<main, conv>>

(***************************************************************************)
(* Bounds of the model.                                                    *)
(***************************************************************************)
MaxAgents == 3          \* rosters of 0..MaxAgents agents under Spec
MaxStep == 3            \* inject/step are not called once _step = MaxStep
MaxPolicyAgents == 5    \* rosters of 0..MaxPolicyAgents agents under SpecPolicy
MaxSchedule == 20       \* the policy is applied to step = 0..MaxSchedule-1
MaxDirectAgents == 2    \* 1..MaxDirectAgents agents are called directly under SpecAgent
MaxHistory == 3         \* receive is not called on a history of MaxHistory entries
Unit == 1000            \* fixed-point resolution: the real number x is the integer x * Unit
Grid == 100             \* relevance_score_fn is applied to the distances 2*k/Grid, k = 0..Grid
MaxFreeReplies == 3     \* main loop: the first MaxFreeReplies answers of the model are free
MaxConvAgents == 3      \* run_conversation is called with lists of 0..MaxConvAgents agents
MaxTurns == 1           \* run_conversation: rounds are modelled while turns <= MaxTurns

(***************************************************************************)
(* Values of the notebook.                                                 *)
(***************************************************************************)
character_names == <<"Harry Potter", "Ron Weasley", "Hermione Granger", "Argus Filch">>
storyteller_name == "Dungeon Master"
Header == "Here is the conversation so far."
max_iters == 20

\* The roster "[storyteller] + characters", cut or cycled to n agents.
Roster(n) ==
    [i \in 1..n |-> IF i = 1 THEN storyteller_name
                    ELSE character_names[((i - 2) % Len(character_names)) + 1]]

\* What the chat model can answer, and the names inject is called with.
Messages == {"I draw my wand.", "The door creaks open."}
InjectNames == {storyteller_name, "Narrator"}

\* Indices an arbitrary selection function may return.
IdxRange == (0 - (MaxAgents + 1))..(MaxAgents + 1)

(***************************************************************************)
(* Python arithmetic and list indexing.                                    *)
(***************************************************************************)
\* a % b of Python for b # 0: the result has the sign of the divisor.
PyMod(a, b) == IF b > 0 THEN a % b ELSE 0 - ((0 - a) % (0 - b))

\* Outcome of a call: a returned index, or a raised exception.
Return(i) == [raised |-> "none", idx |-> i]
Raise(e) == [raised |-> e, idx |-> 0]

\* agents[idx] on a list of n elements: the 1-based position it denotes
\* (negative indices count from the end), or 0 when it raises IndexError.
list_getitem(n, idx) ==
    IF 0 <= idx /\ idx < n THEN idx + 1
    ELSE IF idx < 0 /\ 0 - n <= idx THEN n + idx + 1
    ELSE 0

(***************************************************************************)
(* DialogueAgent                                                           *)
(***************************************************************************)
\* The system message an agent is constructed with (its content names the agent).
character_system_message(name) == "Your name is " \o name \o "."

\* DialogueAgent.reset: the history restarts with the header line.
DialogueAgent_reset == <<Header>>

\* "\n".join(lines)
RECURSIVE join_lines(_)
join_lines(lines) ==
    IF lines = << >> THEN ""
    ELSE IF Len(lines) = 1 THEN lines[1]
    ELSE lines[1] \o "\n" \o join_lines(Tail(lines))

\* DialogueAgent.prefix
prefix(name) == name \o ": "

\* The messages send() passes to the model: the system message and one human
\* message, the history followed by the prefix, joined by newlines.
send_prompt(sysmsg, history, name) ==
    <<sysmsg, join_lines(Append(history, prefix(name)))>>

\* DialogueAgent.receive: one formatted entry is appended.
receive_replace_last(history, name, message) ==
    [history EXCEPT ![Len(history)] = name \o ": " \o message]

receive(history, name, message) == Append(history, name \o ": " \o message)

(***************************************************************************)
(* select_next_speaker                                                     *)
(***************************************************************************)
select_next_speaker_mod_len(step, roster) ==
    IF PyMod(step, 2) = 0
    THEN Return(0)
    ELSE IF Len(roster) = 0
         THEN Raise("ZeroDivisionError")
         ELSE Return(PyMod(step \div 2, Len(roster)) + 1)

select_next_speaker_step_mod(step, roster) ==
    IF PyMod(step, 2) = 0
    THEN Return(0)
    ELSE IF Len(roster) - 1 = 0
         THEN Raise("ZeroDivisionError")
         ELSE Return(PyMod(step, Len(roster) - 1) + 1)

select_next_speaker(step, roster) ==
    IF PyMod(step, 2) = 0
    THEN Return(0)
    ELSE IF Len(roster) - 1 = 0
         THEN Raise("ZeroDivisionError")
         ELSE Return(PyMod(step \div 2, Len(roster) - 1) + 1)

(***************************************************************************)
(* DialogueSimulator                                                       *)
(***************************************************************************)
\* Outside the main loop, inject/step are not called once _step = MaxStep.
within_bound == main.pc # "api" \/ _step < MaxStep

NotScored == [called |-> FALSE, value |-> 0]

NoCall == [op |-> "none", raised |-> "none", idx |-> 0, name |-> "",
           message |-> "", sender |-> 0, prompt |-> << >>]

\* DialogueSimulator.__init__, with every agent freshly constructed.
DialogueSimulator_init(roster, fn) ==
    /\ agents = roster
    /\ _step = 0
    /\ selection_function = fn
    /\ message_history = [i \in 1..Len(roster) |-> DialogueAgent_reset]
    /\ system_message = [i \in 1..Len(roster) |-> character_system_message(roster[i])]
    /\ ret = NoCall

\* DialogueSimulator.reset
reset_keeps_history ==
    /\ ret' = [NoCall EXCEPT !.op = "reset"]
    /\ UNCHANGED <<agents, system_message, score, relevance, selection_function, _step, message_history, schedule>>

reset_rotates_roster ==
    /\ message_history' = [i \in DOMAIN message_history |-> DialogueAgent_reset]
    /\ agents' = IF agents = << >> THEN agents ELSE Append(Tail(agents), Head(agents))
    /\ ret' = [NoCall EXCEPT !.op = "reset"]
    /\ UNCHANGED <<system_message, score, relevance, selection_function, _step, schedule>>

reset ==
    /\ message_history' = [i \in DOMAIN message_history |-> DialogueAgent_reset]
    /\ ret' = [NoCall EXCEPT !.op = "reset"]
    /\ UNCHANGED <<agents, system_message, score, relevance, selection_function, _step, schedule>>

\* DialogueSimulator.inject
inject_no_tick(name, message) ==
    /\ within_bound
    /\ message_history' =
         [i \in DOMAIN message_history |-> receive(message_history[i], name, message)]
    /\ ret' = [NoCall EXCEPT !.op = "inject", !.name = name, !.message = message]
    /\ UNCHANGED <<agents, system_message, score, relevance, selection_function, _step, schedule>>

inject_first_only(name, message) ==
    /\ within_bound
    /\ message_history' =
         [i \in DOMAIN message_history |->
            IF i = 1 THEN receive(message_history[i], name, message)
            ELSE message_history[i]]
    /\ _step' = _step + 1
    /\ ret' = [NoCall EXCEPT !.op = "inject", !.name = name, !.message = message]
    /\ UNCHANGED <<agents, system_message, score, relevance, selection_function, schedule>>

inject(name, message) ==
    /\ within_bound
    /\ message_history' =
         [i \in DOMAIN message_history |-> receive(message_history[i], name, message)]
    /\ _step' = _step + 1
    /\ ret' = [NoCall EXCEPT !.op = "inject", !.name = name, !.message = message]
    /\ UNCHANGED <<agents, system_message, score, relevance, selection_function, schedule>>

\* What self.select_next_speaker(self._step, self.agents) can produce.
selected_after_tick ==
    IF selection_function = "select_next_speaker"
    THEN {select_next_speaker(_step + 1, agents)}
    ELSE {Return(i) : i \in IdxRange}

selected ==
    IF selection_function = "select_next_speaker"
    THEN {select_next_speaker(_step, agents)}
    ELSE {Return(i) : i \in IdxRange}

\* What speaker.send() can produce: the model's answer, or the model call fails.
send_outcomes == Messages \cup {"ProviderUnavailable"}

\* Step 3 of step: "for receiver in self.agents: receiver.receive(...)".
broadcast_others(pos, message) ==
    [i \in DOMAIN message_history |->
        IF i = pos THEN message_history[i]
        ELSE receive(message_history[i], agents[pos], message)]

broadcast(pos, message) ==
    [i \in DOMAIN message_history |-> receive(message_history[i], agents[pos], message)]

\* DialogueSimulator.step
step_counts_before_send ==
    /\ within_bound
    /\ \E sel \in selected :
         LET pos == list_getitem(Len(agents), sel.idx) IN
         IF sel.raised # "none"
         THEN /\ ret' = [NoCall EXCEPT !.op = "step", !.raised = sel.raised]
              /\ UNCHANGED <<_step, message_history>>
         ELSE IF pos = 0
         THEN /\ ret' = [NoCall EXCEPT !.op = "step", !.raised = "IndexError",
                                       !.idx = sel.idx]
              /\ UNCHANGED <<_step, message_history>>
         ELSE \E out \in send_outcomes :
                IF out = "ProviderUnavailable"
                THEN /\ ret' = [NoCall EXCEPT !.op = "step", !.raised = out,
                                              !.idx = sel.idx, !.sender = pos,
                                              !.prompt = send_prompt(system_message[pos],
                                                  message_history[pos], agents[pos])]
                     /\ _step' = _step + 1
                     /\ UNCHANGED message_history
                ELSE /\ message_history' = broadcast(pos, out)
                     /\ _step' = _step + 1
                     /\ ret' = [op |-> "step", raised |-> "none", idx |-> sel.idx,
                                name |-> agents[pos], message |-> out, sender |-> pos,
                                prompt |-> send_prompt(system_message[pos],
                                               message_history[pos], agents[pos])]
    /\ UNCHANGED <<agents, system_message, score, relevance, selection_function, schedule>>

step ==
    /\ within_bound
    /\ \E sel \in selected :
         LET pos == list_getitem(Len(agents), sel.idx) IN
         IF sel.raised # "none"
         THEN /\ ret' = [NoCall EXCEPT !.op = "step", !.raised = sel.raised]
              /\ UNCHANGED <<_step, message_history>>
         ELSE IF pos = 0
         THEN /\ ret' = [NoCall EXCEPT !.op = "step", !.raised = "IndexError",
                                       !.idx = sel.idx]
              /\ UNCHANGED <<_step, message_history>>
         ELSE \E out \in send_outcomes :
                IF out = "ProviderUnavailable"
                THEN /\ ret' = [NoCall EXCEPT !.op = "step", !.raised = out,
                                              !.idx = sel.idx, !.sender = pos,
                                              !.prompt = send_prompt(system_message[pos],
                                                  message_history[pos], agents[pos])]
                     /\ UNCHANGED <<_step, message_history>>
                ELSE /\ message_history' = broadcast(pos, out)
                     /\ _step' = _step + 1
                     /\ ret' = [op |-> "step", raised |-> "none", idx |-> sel.idx,
                                name |-> agents[pos], message |-> out, sender |-> pos,
                                prompt |-> send_prompt(system_message[pos],
                                               message_history[pos], agents[pos])]
    /\ UNCHANGED <<agents, system_message, score, relevance, selection_function, schedule>>

\* The simulator's operations with the log of what was delivered.
sim_reset == reset /\ log' = << >>

sim_inject(name, message) ==
    inject(name, message) /\ log' = Append(log, <<name, message>>)

sim_step ==
    /\ step
    /\ log' = IF ret'.raised = "none" THEN Append(log, <<ret'.name, ret'.message>>)
              ELSE log

\* No driver is running: the operations are called freely.
NoConversation == [pc |-> "none", agents |-> << >>, initial_observation |-> "",
                   observation |-> "", turns |-> 0, break_dialogue |-> FALSE,
                   i |-> 0, calls |-> << >>, printed |-> << >>]

not_driven ==
    /\ log = << >>
    /\ main = [pc |-> "api", n |-> 0, printed |-> << >>]
    /\ conv = NoConversation

Init ==
    /\ \E n \in 0..MaxAgents, fn \in {"select_next_speaker", "other"} :
         DialogueSimulator_init(Roster(n), fn)
    /\ schedule = << >>
    /\ score = 0
    /\ relevance = NotScored
    /\ not_driven

Next ==
    \/ sim_reset /\ UNCHANGED drivers
    \/ \E name \in InjectNames, message \in Messages :
         sim_inject(name, message) /\ UNCHANGED drivers
    \/ sim_step /\ UNCHANGED drivers

Spec == Init /\ [][Next]_vars

(***************************************************************************)
(* The main loop cell: construct the simulator over [storyteller] +        *)
(* characters, reset, inject the quest, then call step() max_iters times.  *)
(* main.printed holds the (name, message) pairs the cell prints.           *)
(***************************************************************************)
\* The answers of the chat model in the main loop: any message for the first
\* MaxFreeReplies calls, then the two messages in turn.
scripted_reply(k) ==
    IF k % 2 = 0 THEN "I draw my wand." ELSE "The door creaks open."

reply_allowed(k, message) == k < MaxFreeReplies \/ message = scripted_reply(k)

InitMain ==
    /\ DialogueSimulator_init(Roster(1 + Len(character_names)), "select_next_speaker")
    /\ schedule = << >>
    /\ score = 0
    /\ relevance = NotScored
    /\ log = << >>
    /\ main = [pc |-> "reset", n |-> 0, printed |-> << >>]
    /\ conv = NoConversation

\* simulator.reset()
main_reset ==
    /\ main.pc = "reset"
    /\ sim_reset
    /\ main' = [main EXCEPT !.pc = "inject"]
    /\ UNCHANGED conv

\* simulator.inject(storyteller_name, specified_quest); print
main_inject ==
    /\ main.pc = "inject"
    /\ \E specified_quest \in Messages :
         /\ sim_inject(storyteller_name, specified_quest)
         /\ main' = [main EXCEPT !.pc = "loop",
                       !.printed = Append(@, <<storyteller_name, specified_quest>>)]
    /\ UNCHANGED conv

\* while n < max_iters: name, message = simulator.step(); print; n += 1
\* An exception raised by step() ends the cell.
main_step ==
    /\ main.pc = "loop"
    /\ main.n < max_iters
    /\ sim_step
    /\ ret'.raised = "none" => reply_allowed(main.n, ret'.message)
    /\ main' = IF ret'.raised = "none"
               THEN [main EXCEPT !.n = @ + 1,
                       !.printed = Append(@, <<ret'.name, ret'.message>>)]
               ELSE [main EXCEPT !.pc = "raised"]
    /\ UNCHANGED conv

\* the while condition fails: the cell is finished
main_exit ==
    /\ main.pc = "loop"
    /\ ~(main.n < max_iters)
    /\ main' = [main EXCEPT !.pc = "done"]
    /\ UNCHANGED <<agents, selection_function, _step, message_history, ret, schedule,
                   system_message, score, relevance, log, conv>>

NextMain ==
    \/ main_reset
    \/ main_inject
    \/ main_step
    \/ main_exit

SpecMain == InitMain /\ [][NextMain]_vars

\* The cell is a sequential program: it keeps running until it ends.
SpecMainFair == SpecMain /\ WF_vars(NextMain)

(***************************************************************************)
(* run_conversation(agents, initial_observation) of the generative agents  *)
(* notebook.  conv holds its locals (agents as a 1-based sequence, i the   *)
(* position of the for loop), conv.calls the calls it made on the agents   *)
(* and conv.printed what it printed.  The agents' methods are calls into   *)
(* the chat model: they return any flag and any utterance, or raise.       *)
(***************************************************************************)
conv_names == <<"Tommie", "Eve", "Agent 3", "Agent 4">>

Utterances == {"Eve said: Sure, ask away.", "Tommie said: Goodbye."}

dialogue_outcomes == Utterances \cup {"ProviderUnavailable"}

first_observation == "Tommie said: Hi, Eve."

InitConv ==
    /\ DialogueSimulator_init(<< >>, "select_next_speaker")
    /\ schedule = << >>
    /\ score = 0
    /\ relevance = NotScored
    /\ log = << >>
    /\ main = [pc |-> "api", n |-> 0, printed |-> << >>]
    /\ \E n \in 0..MaxConvAgents :
         conv = [NoConversation EXCEPT !.pc = "start",
                    !.agents = SubSeq(conv_names, 1, n),
                    !.initial_observation = first_observation]

conv_frame ==
    UNCHANGED <<agents, selection_function, _step, message_history, ret, schedule,
                system_message, score, relevance, log, main>>

\* _, observation = agents[1].generate_reaction(initial_observation)
\* print(observation); turns = 0
conv_reaction ==
    /\ conv.pc = "start"
    /\ LET at == list_getitem(Len(conv.agents), 1)
       IN IF at = 0
          THEN conv' = [conv EXCEPT !.pc = "raised"]
          ELSE \E flag \in BOOLEAN, out \in dialogue_outcomes :
                 IF out = "ProviderUnavailable"
                 THEN /\ flag
                      /\ conv' = [conv EXCEPT !.pc = "raised"]
                 ELSE conv' = [conv EXCEPT
                        !.pc = "while",
                        !.observation = out,
                        !.turns = 0,
                        !.printed = Append(@, out),
                        !.calls = Append(@, [method |-> "generate_reaction",
                                             agent |-> at,
                                             input |-> conv.initial_observation,
                                             output |-> out,
                                             stay_in_dialogue |-> flag,
                                             turns |-> 0])]
    /\ conv_frame

\* while True: break_dialogue = False; for agent in agents:
conv_round ==
    /\ conv.pc = "while"
    /\ conv' = [conv EXCEPT !.pc = "for", !.break_dialogue = FALSE, !.i = 1]
    /\ conv_frame

conv_response_breaks ==
    /\ conv.pc = "for"
    /\ conv.i <= Len(conv.agents)
    /\ \E stay_in_dialogue \in BOOLEAN, out \in dialogue_outcomes :
         IF out = "ProviderUnavailable"
         THEN /\ stay_in_dialogue
              /\ conv' = [conv EXCEPT !.pc = "raised"]
         ELSE conv' = [conv EXCEPT
                !.pc = IF stay_in_dialogue THEN "for" ELSE "done",
                !.observation = out,
                !.printed = Append(@, out),
                !.break_dialogue = @ \/ ~stay_in_dialogue,
                !.i = @ + 1,
                !.calls = Append(@, [method |-> "generate_dialogue_response",
                                     agent |-> conv.i,
                                     input |-> conv.observation,
                                     output |-> out,
                                     stay_in_dialogue |-> stay_in_dialogue,
                                     turns |-> conv.turns])]
    /\ conv_frame

conv_response_to_initial ==
    /\ conv.pc = "for"
    /\ conv.i <= Len(conv.agents)
    /\ \E stay_in_dialogue \in BOOLEAN, out \in dialogue_outcomes :
         IF out = "ProviderUnavailable"
         THEN /\ stay_in_dialogue
              /\ conv' = [conv EXCEPT !.pc = "raised"]
         ELSE conv' = [conv EXCEPT
                !.observation = out,
                !.printed = Append(@, out),
                !.break_dialogue = @ \/ ~stay_in_dialogue,
                !.i = @ + 1,
                !.calls = Append(@, [method |-> "generate_dialogue_response",
                                     agent |-> conv.i,
                                     input |-> conv.initial_observation,
                                     output |-> out,
                                     stay_in_dialogue |-> stay_in_dialogue,
                                     turns |-> conv.turns])]
    /\ conv_frame

\* stay_in_dialogue, observation = agent.generate_dialogue_response(observation)
\* print(observation); if not stay_in_dialogue: break_dialogue = True
conv_response ==
    /\ conv.pc = "for"
    /\ conv.i <= Len(conv.agents)
    /\ \E stay_in_dialogue \in BOOLEAN, out \in dialogue_outcomes :
         IF out = "ProviderUnavailable"
         THEN /\ stay_in_dialogue
              /\ conv' = [conv EXCEPT !.pc = "raised"]
         ELSE conv' = [conv EXCEPT
                !.observation = out,
                !.printed = Append(@, out),
                !.break_dialogue = @ \/ ~stay_in_dialogue,
                !.i = @ + 1,
                !.calls = Append(@, [method |-> "generate_dialogue_response",
                                     agent |-> conv.i,
                                     input |-> conv.observation,
                                     output |-> out,
                                     stay_in_dialogue |-> stay_in_dialogue,
                                     turns |-> conv.turns])]
    /\ conv_frame

\* the for loop is exhausted: if break_dialogue: break
conv_break ==
    /\ conv.pc = "for"
    /\ conv.i > Len(conv.agents)
    /\ conv.break_dialogue
    /\ conv' = [conv EXCEPT !.pc = "done"]
    /\ conv_frame

\* the for loop is exhausted and nobody left: turns += 1, next round
conv_next_turn ==
    /\ conv.pc = "for"
    /\ conv.i > Len(conv.agents)
    /\ ~conv.break_dialogue
    /\ conv.turns < MaxTurns
    /\ conv' = [conv EXCEPT !.pc = "while", !.turns = @ + 1]
    /\ conv_frame

NextConv ==
    \/ conv_reaction
    \/ conv_round
    \/ conv_response
    \/ conv_break
    \/ conv_next_turn

SpecConv == InitConv /\ [][NextConv]_vars

\* run_conversation is a sequential function: it keeps running until it ends.
SpecConvFair == SpecConv /\ WF_vars(NextConv)

(***************************************************************************)
(* The policy on its own: select_next_speaker applied to step = 0, 1, ...  *)
(* over a roster of 0..MaxPolicyAgents agents.                             *)
(***************************************************************************)
InitPolicy ==
    /\ \E n \in 0..MaxPolicyAgents :
         DialogueSimulator_init(Roster(n), "select_next_speaker")
    /\ schedule = << >>
    /\ score = 0
    /\ relevance = NotScored
    /\ not_driven

ApplyPolicy ==
    /\ Len(schedule) < MaxSchedule
    /\ schedule' = Append(schedule, select_next_speaker(Len(schedule), agents))
    /\ UNCHANGED <<agents, system_message, score, relevance, selection_function,
                   _step, message_history, ret, log, drivers>>

NextPolicy == ApplyPolicy

SpecPolicy == InitPolicy /\ [][NextPolicy]_vars

(***************************************************************************)
(* The agents on their own: receive, reset and send called directly on one *)
(* agent of a roster of 1..MaxDirectAgents agents.                         *)
(***************************************************************************)
InitAgent ==
    /\ \E n \in 1..MaxDirectAgents :
         DialogueSimulator_init(Roster(n), "select_next_speaker")
    /\ schedule = << >>
    /\ score = 0
    /\ relevance = NotScored
    /\ not_driven

\* agents[i].receive(name, message); ret.idx is the 0-based index of the agent.
agent_receive(i, name, message) ==
    /\ Len(message_history[i]) < MaxHistory
    /\ message_history' =
         [message_history EXCEPT ![i] = receive(message_history[i], name, message)]
    /\ ret' = [NoCall EXCEPT !.op = "receive", !.idx = i - 1,
                             !.name = name, !.message = message]
    /\ UNCHANGED <<agents, system_message, score, relevance, selection_function,
                   _step, schedule, log, drivers>>

\* agents[i].reset()
agent_reset(i) ==
    /\ message_history' = [message_history EXCEPT ![i] = DialogueAgent_reset]
    /\ ret' = [NoCall EXCEPT !.op = "agent_reset", !.idx = i - 1]
    /\ UNCHANGED <<agents, system_message, score, relevance, selection_function,
                   _step, schedule, log, drivers>>

\* agents[i].send(): the model answers from the prompt, or the model call fails;
\* the prompt is a local value and the history is only read.
agent_send_stores_prefix(i) ==
    /\ Len(message_history[i]) < MaxHistory
    /\ message_history' =
         [message_history EXCEPT ![i] = Append(message_history[i], prefix(agents[i]))]
    /\ \E out \in Messages :
         ret' = [NoCall EXCEPT !.op = "send", !.idx = i - 1, !.sender = i,
                              !.name = agents[i], !.message = out,
                              !.prompt = send_prompt(system_message[i],
                                             message_history[i], agents[i])]
    /\ UNCHANGED <<agents, system_message, score, relevance, selection_function,
                   _step, schedule, log, drivers>>

agent_send(i) ==
    /\ \E out \in send_outcomes :
         ret' = IF out = "ProviderUnavailable"
                THEN [NoCall EXCEPT !.op = "send", !.raised = out,
                                    !.idx = i - 1, !.sender = i,
                                    !.prompt = send_prompt(system_message[i],
                                                   message_history[i], agents[i])]
                ELSE [NoCall EXCEPT !.op = "send", !.idx = i - 1, !.sender = i,
                                    !.name = agents[i], !.message = out,
                                    !.prompt = send_prompt(system_message[i],
                                                   message_history[i], agents[i])]
    /\ UNCHANGED <<agents, system_message, score, relevance, selection_function,
                   _step, schedule, message_history, log, drivers>>

NextAgent ==
    \/ \E i \in DOMAIN agents, message \in Messages :
         agent_receive(i, storyteller_name, message)
    \/ \E i \in DOMAIN agents : agent_reset(i)
    \/ \E i \in DOMAIN agents : agent_send(i)

SpecAgent == InitAgent /\ [][NextAgent]_vars

(***************************************************************************)
(* relevance_score_fn on its own, applied to the Euclidean distances       *)
(* between two unit vectors: 0 (equal) up to 2 (opposite).                 *)
(***************************************************************************)
\* math.sqrt(2) in 1/Unit, rounded down.
Sqrt2 ==
    CHOOSE r \in 0..(2 * Unit) :
        r * r <= 2 * Unit * Unit /\ (r + 1) * (r + 1) > 2 * Unit * Unit

\* relevance_score_fn: 1.0 - score / math.sqrt(2), in 1/Unit.
relevance_score_fn(x) == Unit - ((x * Unit) \div Sqrt2)

UnitDistances == {(2 * Unit * k) \div Grid : k \in 0..Grid}

InitRelevance ==
    /\ DialogueSimulator_init(<< >>, "select_next_speaker")
    /\ schedule = << >>
    /\ score \in UnitDistances
    /\ relevance = NotScored
    /\ not_driven

ApplyRelevance ==
    /\ relevance' = [called |-> TRUE, value |-> relevance_score_fn(score)]
    /\ UNCHANGED <<agents, system_message, score, selection_function, _step,
                   message_history, ret, schedule, log, drivers>>

NextRelevance == ApplyRelevance

SpecRelevance == InitRelevance /\ [][NextRelevance]_vars

(***************************************************************************)
(* Properties of the policy, checked under SpecPolicy.                     *)
(***************************************************************************)
N == Len(agents)

RoundRobinExample == <<0, 1, 0, 2, 0, 3, 0, 1, 0>>

\* C1: with the storyteller at index 0 and 3 other agents, select_next_speaker
\* selects 0,1,0,2,0,3,0,1,0 for step = 0..8.
C1_RoundRobinExample ==
    N = 4 =>
        \A k \in 1..Len(schedule) :
            k <= Len(RoundRobinExample) => schedule[k] = Return(RoundRobinExample[k])

C1_Witness == N = 4 /\ Len(schedule) >= Len(RoundRobinExample)

\* C7: for every step >= 0 and every non-empty roster (N = 1 included),
\* select_next_speaker raises nothing and returns an index in 0..N-1.
C7_AlwaysValidIndex ==
    N >= 1 =>
        \A k \in 1..Len(schedule) :
            /\ schedule[k].raised = "none"
            /\ 0 <= schedule[k].idx
            /\ schedule[k].idx < N

\* C8: for N >= 2, even steps select 0 and an odd step selects
\* ((step // 2) mod (N-1)) + 1, so the selection reads role,1,role,2,...,role,N-1
\* and repeats with period 2*(N-1).
C8_RoundRobinFormula ==
    N >= 2 =>
        \A k \in 1..Len(schedule) :
            LET s == k - 1 IN
            /\ schedule[k].raised = "none"
            /\ s % 2 = 0 => schedule[k].idx = 0
            /\ s % 2 = 1 => schedule[k].idx = (((s - 1) \div 2) % (N - 1)) + 1
            /\ k <= 2 * (N - 1) /\ s % 2 = 1 => schedule[k].idx = (s + 1) \div 2
            /\ k > 2 * (N - 1) => schedule[k] = schedule[k - 2 * (N - 1)]

C8_Witness == N >= 3 /\ Len(schedule) >= 4 * (N - 1)

\* How often index idx is selected at the steps start-1 .. start+len-2.
TimesSelected(idx, start, len) ==
    Cardinality({k \in start..(start + len - 1) : schedule[k] = Return(idx)})

\* C24: with N >= 2 agents nobody is starved: in every window of 2*(N-1)
\* consecutive steps each player 1..N-1 is selected exactly once and index 0
\* exactly N-1 times.
C24_NoStarvation ==
    N >= 2 =>
        \A start \in 1..Len(schedule) :
            start + 2 * (N - 1) - 1 <= Len(schedule) =>
                /\ TimesSelected(0, start, 2 * (N - 1)) = N - 1
                /\ \A i \in 1..(N - 1) : TimesSelected(i, start, 2 * (N - 1)) = 1

C24_Witness == N >= 4 /\ Len(schedule) >= 4 * (N - 1) + 1

(***************************************************************************)
(* Properties of the simulator, checked under Spec.                        *)
(***************************************************************************)
Completed(r) == r.op \in {"inject", "step"} /\ r.raised = "none"

C3_InjectDeliversToAll ==
    [][ret'.op = "inject" =>
          /\ _step' = _step + 1
          /\ ret'.sender = 0
          /\ \A i \in 1..N :
               message_history'[i] =
                   Append(message_history[i], ret'.name \o ": " \o ret'.message)]_vars

C3_Witness ==
    /\ ret.op = "inject" /\ N >= 2 /\ _step >= 2
    /\ \A i \in 1..N :
         message_history[i][Len(message_history[i])] = ret.name \o ": " \o ret.message

\* C4: after reset(), in any reachable state, the step counter is 0.
C4_ResetZeroesStep == ret.op = "reset" => _step = 0

\* C5: after reset(), the history of every agent is exactly the one-element
\* history holding the header line, as right after construction.
C5_ResetClearsHistories ==
    ret.op = "reset" => \A i \in 1..N : message_history[i] = <<Header>>

C5_Witness == ret.op = "reset" /\ _step >= 2 /\ N >= 2

\* C6: the counter starts at 0 and moves only by +1, exactly when an inject or
\* a step completes: no value is skipped or duplicated.
C6_StepCountsOperations ==
    /\ _step = 0
    /\ [][/\ Completed(ret') => _step' = _step + 1
          /\ ~Completed(ret') => _step' = _step]_vars

C6_Witness == _step >= 3 /\ ret.op = "step" /\ ret.raised = "none"

\* C9: step() fails whenever the policy returns an index outside 0..N-1
\* (idx >= N or idx < 0), and then calls no agent's send.
C9_OutOfRangeIndexFails ==
    (ret.op = "step" /\ (ret.idx < 0 \/ ret.idx >= N)) =>
        (ret.raised # "none" /\ ret.sender = 0)

\* C10: no simulator with zero agents exists: inject and step never run on
\* an empty roster.
C10_NoEmptyRoster == ret.op \in {"inject", "step"} => N > 0

\* C12: when the speaker's send() fails inside step(), the failure reaches the
\* caller and nothing has changed: no agent received anything, the counter has
\* not advanced, and a retried step() selects the same speaker again.
C12_SendFailureLeavesState ==
    [][ret'.op = "step" /\ ret'.raised = "ProviderUnavailable" =>
          /\ _step' = _step
          /\ message_history' = message_history
          /\ ret'.sender = list_getitem(N, ret'.idx)
          /\ Return(ret'.idx) \in selected'
          /\ selection_function = "select_next_speaker" =>
                selected' = {Return(ret'.idx)}]_vars

C12_Witness ==
    /\ ret.op = "step" /\ ret.raised = "ProviderUnavailable"
    /\ selection_function = "select_next_speaker"
    /\ N >= 2 /\ _step >= 1 /\ ret.sender = 2

\* C14: the roster is fixed after construction: reset, inject and step never
\* add, remove or reorder agents, and never change a name or a system message.
C14_RosterFixed ==
    [][agents' = agents /\ system_message' = system_message]_vars

C14_Witness ==
    /\ N >= 2 /\ _step >= 2 /\ ret.op = "reset"
    /\ agents = Roster(N)
    /\ \A i \in 1..N : system_message[i] = character_system_message(agents[i])

\* C21: inside one step() the speaker is selected with the counter value before
\* the increment, it sends from the history it had before this step (its own
\* new message is not in the prompt), then everyone receives, then the counter
\* advances.
C21_StepPhaseOrder ==
    [][ret'.op = "step" /\ ret'.raised = "none" =>
          LET pos == ret'.sender IN
          /\ selection_function = "select_next_speaker" =>
                Return(ret'.idx) = select_next_speaker(_step, agents)
          /\ ret'.prompt[1] = system_message[pos]
          /\ ret'.prompt[2] =
                join_lines(message_history[pos] \o <<agents[pos] \o ": ">>)
          /\ ret'.prompt[2] #
                join_lines(message_history'[pos] \o <<agents[pos] \o ": ">>)
          /\ message_history'[pos] =
                Append(message_history[pos], agents[pos] \o ": " \o ret'.message)
          /\ _step' = _step + 1]_vars

C21_Witness ==
    /\ ret.op = "step" /\ ret.raised = "none"
    /\ selection_function = "select_next_speaker"
    /\ ret.idx = 1 /\ _step = 2
    /\ Len(message_history[ret.sender]) >= 3

\* C28: under the simulator's operations alone all agents hold the same
\* history: same length, same entries, same order.
C28_IdenticalHistories ==
    \A i \in 1..N : \A j \in 1..N : message_history[i] = message_history[j]

C28_Witness ==
    /\ N >= 2 /\ ret.op = "step" /\ ret.raised = "none"
    /\ Len(message_history[1]) >= 3
    /\ message_history[N] = message_history[1]

\* C29: the history of each agent is the header followed by one entry per
\* inject or step completed since the last reset (or construction), in the
\* order in which they completed.
C29_HistoryIsLog ==
    \A i \in 1..N :
        /\ Len(message_history[i]) = 1 + Len(log)
        /\ message_history[i][1] = Header
        /\ \A k \in 1..Len(log) :
             message_history[i][k + 1] = log[k][1] \o ": " \o log[k][2]

C29_Witness ==
    /\ N >= 2 /\ Completed(ret)
    /\ Len(log) >= 2 /\ _step > Len(log)
    /\ log[1] # log[2]

(***************************************************************************)
(* Properties of one agent, checked under SpecAgent.                       *)
(***************************************************************************)
IsPrefix(h, g) == Len(h) <= Len(g) /\ \A k \in 1..Len(h) : g[k] = h[k]

\* C11: receive(name, message) appends exactly one entry "name: message" at the
\* end of that agent's history and leaves every earlier entry and every other
\* agent's history unchanged; between resets a history only grows at its end.
C11_ReceiveAppendsOne ==
    [][/\ ret'.op = "receive" =>
            LET i == ret'.idx + 1 IN
            /\ Len(message_history'[i]) = Len(message_history[i]) + 1
            /\ IsPrefix(message_history[i], message_history'[i])
            /\ message_history'[i][Len(message_history'[i])]
                 = ret'.name \o ": " \o ret'.message
            /\ \A j \in 1..N : j # i => message_history'[j] = message_history[j]
       /\ ret'.op # "agent_reset" =>
            \A j \in 1..N : IsPrefix(message_history[j], message_history'[j])]_vars

C11_Witness ==
    /\ ret.op = "receive" /\ N >= 2
    /\ Len(message_history[ret.idx + 1]) >= 3
    /\ \E j \in 1..N : message_history[j] # message_history[ret.idx + 1]

(***************************************************************************)
(* Properties of relevance_score_fn, checked under SpecRelevance.          *)
(***************************************************************************)
\* C20: for every Euclidean distance between two unit-normalized embeddings
\* (0 up to 2) relevance_score_fn returns a similarity in [0, 1], and the
\* distance 0 is mapped to 1.
C20_RelevanceInUnitInterval ==
    relevance.called =>
        /\ 0 <= relevance.value
        /\ relevance.value <= Unit
        /\ score = 0 => relevance.value = Unit

\* C22: send() leaves the agent's history unchanged: the prefix it appends to
\* build the prompt is not stored, and neither is the message it returns.
C22_SendLeavesHistory ==
    [][ret'.op = "send" =>
          /\ message_history' = message_history
          /\ ret'.prompt[2] =
                join_lines(message_history'[ret'.sender]
                             \o <<agents[ret'.sender] \o ": ">>)]_vars

C22_Witness ==
    /\ ret.op = "send" /\ ret.raised = "none"
    /\ Len(message_history[ret.sender]) >= 2
    /\ ret.prompt[2] = join_lines(message_history[ret.sender] \o <<ret.name \o ": ">>)

(***************************************************************************)
(* Properties of the main loop, checked under SpecMain / SpecMainFair.     *)
(***************************************************************************)
\* C23: in the main loop the inject consumes counter value 0, so the first
\* step() runs with counter 1 and the first player agents[1] speaks, not the
\* storyteller; afterwards the storyteller speaks at every even counter value
\* and a player at every odd one.
C23_FirstPlayerSpeaksFirst ==
    main.pc \in {"loop", "done"} =>
        /\ _step = main.n + 1
        /\ Len(main.printed) = main.n + 1
        /\ main.printed[1][1] = storyteller_name
        /\ main.n >= 1 => main.printed[2][1] = character_names[1]
        /\ \A c \in 1..main.n :
             IF c % 2 = 0
             THEN main.printed[c + 1][1] = storyteller_name
             ELSE /\ main.printed[c + 1][1] # storyteller_name
                  /\ \E j \in 1..Len(character_names) :
                       main.printed[c + 1][1] = character_names[j]

C23_Witness == main.pc = "loop" /\ main.n >= 4 /\ ret.idx = 2

\* C25: the main loop ends, and when no call failed it ends after exactly
\* max_iters = 20 calls of step(): the counter is 21 and every history holds
\* the header, the injected quest and the 20 spoken messages in spoken order.
C25_MainLoopTerminates ==
    /\ [](main.pc = "done" =>
            /\ main.n = 20
            /\ _step = 21
            /\ Len(main.printed) = 21
            /\ \A i \in 1..N :
                 /\ Len(message_history[i]) = 22
                 /\ message_history[i][1] = Header
                 /\ \A k \in 1..21 :
                      message_history[i][k + 1]
                        = main.printed[k][1] \o ": " \o main.printed[k][2])
    /\ <>(main.pc \in {"done", "raised"})

C25_Witness == main.pc = "done" /\ N = 5 /\ ret.op = "step" /\ ret.raised = "none"

(***************************************************************************)
(* Properties of run_conversation, checked under SpecConv / SpecConvFair.  *)
(***************************************************************************)
Responses(t) ==
    {k \in DOMAIN conv.calls : /\ conv.calls[k].method = "generate_dialogue_response"
                               /\ conv.calls[k].turns = t}

SomeoneLeft(t) == \E k \in Responses(t) : ~conv.calls[k].stay_in_dialogue

\* C26: run_conversation ends exactly at the end of the first round in which
\* some agent returned stay_in_dialogue = False: it returns only after every
\* agent of that round has responded, no call of a later round is ever made,
\* it does not return while every response said True, and once an agent said
\* False the function does come to its end (or to an exception).
C26_EndsAfterFirstLeavingRound ==
    /\ [](conv.pc = "done" =>
            /\ SomeoneLeft(conv.turns)
            /\ Cardinality(Responses(conv.turns)) = Len(conv.agents)
            /\ \A t \in 0..(conv.turns - 1) : ~SomeoneLeft(t))
    /\ [](\A k \in DOMAIN conv.calls :
            (/\ conv.calls[k].method = "generate_dialogue_response"
             /\ ~conv.calls[k].stay_in_dialogue)
            => \A j \in DOMAIN conv.calls : conv.calls[j].turns <= conv.calls[k].turns)
    /\ [](conv.pc = "for" /\ conv.break_dialogue => SomeoneLeft(conv.turns))
    /\ ((conv.pc = "for" /\ conv.break_dialogue) ~> (conv.pc \in {"done", "raised"}))

C26_Witness ==
    /\ conv.pc = "done"
    /\ conv.turns >= 1
    /\ Len(conv.agents) >= 3
    /\ ~conv.calls[Len(conv.calls) - 2].stay_in_dialogue
    /\ conv.calls[Len(conv.calls)].stay_in_dialogue

\* C27: the utterances of run_conversation form a chain: the first call is
\* generate_reaction of agents[1] (the second agent) on the initial
\* observation, and every later call is the dialogue response of the next
\* agent in list order to the output of the call made immediately before it.
C27_UtteranceChain ==
    \A k \in DOMAIN conv.calls :
        IF k = 1
        THEN /\ conv.calls[1].method = "generate_reaction"
             /\ conv.calls[1].agent = 2
             /\ conv.calls[1].input = conv.initial_observation
        ELSE /\ conv.calls[k].method = "generate_dialogue_response"
             /\ conv.calls[k].agent = ((k - 2) % Len(conv.agents)) + 1
             /\ conv.calls[k].input = conv.calls[k - 1].output
             /\ conv.printed[k] = conv.calls[k].output

C27_Witness ==
    /\ Len(conv.calls) >= Len(conv.agents) + 2
    /\ conv.calls[1].output # conv.calls[2].output
    /\ conv.calls[Len(conv.calls)].input # conv.calls[2].input
    /\ conv.calls[Len(conv.calls)].input # conv.initial_observation

====
